---- MODULE Spec2Model ----
(***************************************************************************)
(* Model of the asynchronous job queue of AI-Summarizer:                   *)
(*   src/background_jobs.py  BackgroundJobManager (job store, scheduling   *)
(*                           loop, summarize_note handler)                 *)
(*   src/ai_model.py         LocalAIModel.summarize_text and its fallback  *)
(*   src/models.py           Note (status, summary), NoteStatus            *)
(*   src/main.py             create_note (Note.create, then add_job)       *)
(*                                                                         *)
(* The scheduling loop is an asyncio task.  A task runs without            *)
(* interruption between two suspension points; the suspension points of    *)
(* _process_jobs are the Note Store calls (Note.get, note.save) and        *)
(* asyncio.sleep.  ai_model.summarize_text contains no await and runs      *)
(* inside the step that calls it.  Each action below is one such           *)
(* uninterrupted run of one task.                                          *)
(***************************************************************************)
EXTENDS Integers, Sequences, FiniteSets, TLC

\* ------------------------------------------------------------------------
\* Bounds of the model
\* ------------------------------------------------------------------------
\* number of add_job calls (job records ever created)
MaxJobs == 2
\* number of job records ever created when an id is submitted again
MaxRecords == 3
\* number of start() calls (scheduling-loop tasks ever created)
MaxLoops == 2
\* number of Note Store calls that raise
MaxFaults == 1

\* ------------------------------------------------------------------------
\* Program constants
\* ------------------------------------------------------------------------
\* "max_attempts": 3 in add_job
MaxAttempts == 3
\* len(text) < 50 in summarize_text
ShortTextLen == 50
\* len(text) > 1024 in summarize_text
LongTextLen == 1024

\* the keys under which jobs are submitted (two, so that a key can be reused)
JobIds == {"j1", "j2"}
\* job type tags: the one the loop dispatches, and one it has no handler for
JobTypes == {"summarize_note", "other"}

\* ------------------------------------------------------------------------
\* Text values.  The values of raw_text and summary are a Python str or
\* Python's None.  A str is the sequence of its characters, each character its
\* Unicode code point (ord); None (a null raw_text or summary) is kept apart.
\* ------------------------------------------------------------------------
Str(s) == [isStr |-> TRUE, chars |-> s]
None == [isStr |-> FALSE, chars |-> <<>>]

\* the characters str.strip() removes: those for which str.isspace() holds
\*   9 .. 13        \t \n \x0b \x0c \r
\*   28 .. 31       the separators \x1c .. \x1f
\*   32, 133, 160   space, NEL, no-break space
\*   5760, 8192 .. 8202, 8232, 8233, 8239, 8287, 12288   the Unicode spaces
Whitespace ==
  (9 .. 13) \cup (28 .. 31) \cup {32, 133, 160, 5760} \cup (8192 .. 8202)
    \cup {8232, 8233, 8239, 8287, 12288}

RECURSIVE Rep(_, _)
Rep(c, n) == IF n = 0 THEN <<>> ELSE <<c>> \o Rep(c, n - 1)

\* the raw_text values a job payload is submitted with
RawTexts ==
  << None,
     Str(<<>>),
     \* " xxx... . yyy... . zzz..." : three sentences of 20 letters
     Str(<<32>> \o Rep(120, 20) \o <<46, 32>> \o Rep(121, 20)
         \o <<46, 32>> \o Rep(122, 20)) >>
TextIds == 1 .. Len(RawTexts)

\* ------------------------------------------------------------------------
\* src/ai_model.py
\* ------------------------------------------------------------------------
\* str.strip(): leading and trailing whitespace removed
RECURSIVE LStrip(_)
LStrip(s) ==
  IF s # <<>> /\ Head(s) \in Whitespace THEN LStrip(Tail(s)) ELSE s

RECURSIVE RStrip(_)
RStrip(s) ==
  IF s # <<>> /\ s[Len(s)] \in Whitespace
  THEN RStrip(SubSeq(s, 1, Len(s) - 1)) ELSE s

Strip(s) == RStrip(LStrip(s))

\* the separator of text.split('. ')
SentenceSep == <<46, 32>>

\* index of the first occurrence of sep in s at or after position k, 0 if none
RECURSIVE Find(_, _, _)
Find(s, sep, k) ==
  IF k + Len(sep) - 1 > Len(s) THEN 0
  ELSE IF SubSeq(s, k, k + Len(sep) - 1) = sep THEN k
  ELSE Find(s, sep, k + 1)

\* str.split(sep): the pieces between the non-overlapping occurrences of sep,
\* found left to right
RECURSIVE Split(_, _)
Split(s, sep) ==
  LET k == Find(s, sep, 1) IN
  IF k = 0 THEN << s >>
  ELSE << SubSeq(s, 1, k - 1) >> \o Split(SubSeq(s, k + Len(sep), Len(s)), sep)

\* "Summary: "
SummaryPrefix == <<83, 117, 109, 109, 97, 114, 121, 58, 32>>

Returned(v) == [raised |-> FALSE, value |-> v]
Raised == [raised |-> TRUE, value |-> None]

\* LocalAIModel._rule_based_summarize; None has no split()
rule_based_summarize(text) ==
  IF ~text.isStr THEN Raised
  ELSE LET sentences == Split(text.chars, SentenceSep) IN
       IF Len(sentences) <= 2
       THEN Returned(Str(SummaryPrefix \o text.chars))
       ELSE Returned(Str(SummaryPrefix \o sentences[1] \o SentenceSep
                         \o sentences[Len(sentences)]))

\* the outcomes of the call of self.summarizer followed by
\* summary_result[0]['summary_text']: it raises, or it gives a text of the
\* pipeline's own making, which may be empty or blank ("", " ", "sum")
PipelineResults ==
  << Raised,
     Returned(Str(<<>>)),
     Returned(Str(<<32>>)),
     Returned(Str(<<115, 117, 109>>)) >>

\* LocalAIModel.summarize_text.  loaded is self.model_loaded; pipeline is the
\* outcome of the pipeline call, whose text is returned as it is.
summarize_text(text, loaded, pipeline) ==
  IF ~loaded THEN rule_based_summarize(text)
  ELSE IF ~text.isStr THEN rule_based_summarize(text)
  ELSE LET stripped == Strip(text.chars)
           cut == IF Len(stripped) > LongTextLen
                  THEN SubSeq(stripped, 1, LongTextLen) \o <<46, 46, 46>>
                  ELSE stripped
       IN IF Len(stripped) < ShortTextLen
          THEN Returned(Str(SummaryPrefix \o stripped))
          ELSE IF ~pipeline.raised THEN Returned(pipeline.value)
          ELSE rule_based_summarize(Str(cut))
\* ai_model.summarize_text(raw_text) for each payload text, each value of
\* model_loaded and each outcome of the pipeline call
SummaryOf ==
  [t \in TextIds |->
     [loaded \in BOOLEAN |->
        [p \in 1 .. Len(PipelineResults) |->
           summarize_text(RawTexts[t], loaded, PipelineResults[p])]]]

\* ------------------------------------------------------------------------
\* State
\* ------------------------------------------------------------------------
VARIABLES
  running,       \* BackgroundJobManager.running
  model_loaded,  \* LocalAIModel.model_loaded
  heap,          \* the job records (dicts) ever created; a record is named
                 \* by its index, and the loop's snapshot holds such indexes
  jobs,          \* BackgroundJobManager.jobs: the dict, in insertion order,
                 \* as a sequence of [key, ref] with ref an index of heap
  notes,         \* the Note Store: notes[n] is the row with id n
  requests,      \* ids of the notes whose row Note.create has made and whose
                 \* creator is still suspended in that call
  loops,         \* the _process_jobs tasks created by start()
  faults,        \* number of Note Store calls that have raised
  hist           \* history: per job record, the outcomes of its handler
                 \* invocations ("ok", "fail"), in the order they ended

vars ==
  <<running, model_loaded, heap, jobs, notes, requests, loops, faults, hist>>

JobStatus == {"queued", "processing", "completed", "failed"}
NoteStatus == {"QUEUED", "PROCESSING", "DONE", "FAILED"}

\* the pc of a task: where it is suspended
\*   created  create_task() done, the task has not run yet
\*   h_get1   Note.get  in _update_note_status(note_id, "PROCESSING")
\*   h_save1  note.save in _update_note_status(note_id, "PROCESSING")
\*   h_get2   Note.get  in _process_summarize_job
\*   h_save2  note.save in _process_summarize_job
\*   f_get    Note.get  in _update_note_status(note_id, "FAILED")
\*   f_save   note.save in _update_note_status(note_id, "FAILED")
\*   sleep    asyncio.sleep(5), at the end of a scan or in the outer except
\*   done     the while loop has ended
LoopPc == {"created", "h_get1", "h_save1", "h_get2", "h_save2",
           "f_get", "f_save", "sleep", "done"}
HandlerPc == {"h_get1", "h_save1", "h_get2", "h_save2"}

NoNote == [status |-> "QUEUED", summary |-> None]

\* the task object made by asyncio.create_task(self._process_jobs())
NewTask == [pc |-> "created", snap |-> <<>>, i |-> 0,
            note |-> NoNote, summary |-> None]

\* the record add_job stores
NewJob(job_id, job_type, data) ==
  [id |-> job_id, type |-> job_type, data |-> data,
   status |-> "queued", attempts |-> 0, max_attempts |-> MaxAttempts]

\* the row Note.create makes in create_note
NewNote == [status |-> "QUEUED", summary |-> None]

\* self.jobs.setdefault(job_id, record): a key already present keeps its value
DictSetDefault(d, key, ref) ==
  IF \E k \in 1 .. Len(d) : d[k].key = key
  THEN d
  ELSE Append(d, [key |-> key, ref |-> ref])

\* self.jobs[job_id] = record: a key already present keeps its place in the
\* dict and gets the new value, a new key goes last
DictSet(d, key, ref) ==
  IF \E k \in 1 .. Len(d) : d[k].key = key
  THEN [k \in 1 .. Len(d) |->
          IF d[k].key = key THEN [key |-> key, ref |-> ref] ELSE d[k]]
  ELSE Append(d, [key |-> key, ref |-> ref])

\* a lookup by subscript, self.jobs[job_id]: raises KeyError for an absent key
get_job_status_subscript(job_id) ==
  IF \E k \in 1 .. Len(jobs) : jobs[k].key = job_id
  THEN heap[jobs[CHOOSE k \in 1 .. Len(jobs) : jobs[k].key = job_id].ref]
  ELSE [status |-> "KeyError"]

\* self.jobs.get(job_id, {"status": "not_found"})
NotFound == [status |-> "not_found"]
get_job_status(job_id) ==
  IF \E k \in 1 .. Len(jobs) : jobs[k].key = job_id
  THEN heap[jobs[CHOOSE k \in 1 .. Len(jobs) : jobs[k].key = job_id].ref]
  ELSE NotFound

Init ==
  /\ running = FALSE
  /\ model_loaded = FALSE
  /\ heap = <<>>
  /\ jobs = <<>>
  /\ notes = <<>>
  /\ requests = {}
  /\ loops = <<>>
  /\ faults = 0
  /\ hist = <<>>

\* ------------------------------------------------------------------------
\* The scan: _process_jobs
\* ------------------------------------------------------------------------
\* [job for job in self.jobs.values() if job["status"] == "queued"]
RECURSIVE QueuedFrom(_, _, _)
QueuedFrom(d, h, k) ==
  IF k > Len(d) THEN <<>>
  ELSE (IF h[d[k].ref].status = "queued" THEN << d[k].ref >> ELSE <<>>)
       \o QueuedFrom(d, h, k + 1)

queued_jobs(d, h) == QueuedFrom(d, h, 1)

\* the test with > for >=: one attempt too many is let through
ExhaustedOffByOne(job) == job.attempts > job.max_attempts

\* job["attempts"] >= job["max_attempts"]
Exhausted(job) == job.attempts >= job.max_attempts

\* a dispatch that forgets to count the attempt
MarkProcessingNoCount(job) == [job EXCEPT !.status = "processing"]

\* job["status"] = "processing"; job["attempts"] += 1
MarkProcessing(job) ==
  [job EXCEPT !.status = "processing", !.attempts = @ + 1]

\* whether the loop calls a handler for the job, and so suspends in it
HasHandler(job) == job.type = "summarize_note"

\* The for loop over the snapshot from position i up to its next suspension
\* point: the heap it leaves, the position and the pc it suspends at.  A job
\* without handler is marked processing and the loop goes on to the next job
\* without suspending.
RECURSIVE RunFrom(_, _, _)
RunFrom(h, snap, i) ==
  IF i > Len(snap) THEN [heap |-> h, i |-> 0, pc |-> "sleep"]
  ELSE LET o == snap[i] IN
       IF Exhausted(h[o])
       THEN [heap |-> [h EXCEPT ![o].status = "failed"], i |-> i, pc |-> "f_get"]
       ELSE LET h2 == [h EXCEPT ![o] = MarkProcessing(h[o])] IN
            IF HasHandler(h2[o])
            THEN [heap |-> h2, i |-> i, pc |-> "h_get1"]
            ELSE RunFrom(h2, snap, i + 1)

\* a retry that gives the failed attempt back to the job
HandlerFailedRefund(h, snap, i) ==
  LET o == snap[i] IN
  IF Exhausted(h[o])
  THEN [heap |-> [h EXCEPT ![o].status = "failed"], i |-> i, pc |-> "f_get"]
  ELSE RunFrom([h EXCEPT ![o].status = "queued", ![o].attempts = @ - 1],
               snap, i + 1)

\* an except branch that always puts the job back to queued and leaves the
\* marking of exhausted jobs to the test before the dispatch
HandlerFailedRequeue(h, snap, i) ==
  RunFrom([h EXCEPT ![snap[i]].status = "queued"], snap, i + 1)

\* the except branch of the dispatch: failed and propagate, or queued again
\* and on to the next job
HandlerFailed(h, snap, i) ==
  LET o == snap[i] IN
  IF Exhausted(h[o])
  THEN [heap |-> [h EXCEPT ![o].status = "failed"], i |-> i, pc |-> "f_get"]
  ELSE RunFrom([h EXCEPT ![o].status = "queued"], snap, i + 1)

\* the job record a suspended task is working on, and its note
CurJob(l) == loops[l].snap[loops[l].i]
CurNote(l) == heap[CurJob(l)].data.note_id

\* Note.get(id=n) finds a row; it raises DoesNotExist otherwise
NoteExists(n) == n \in 1 .. Len(notes)

\* the task l takes the suspension point described by r = [heap, i, pc] of its
\* scan of snap; the snapshot is let go of when the for loop has ended
Suspend(l, r, snap, note, summary) ==
  /\ heap' = r.heap
  /\ loops' = [loops EXCEPT ![l] =
                 [pc |-> r.pc,
                  snap |-> IF r.pc = "sleep" THEN <<>> ELSE snap,
                  i |-> r.i, note |-> note, summary |-> summary]]

\* a Note Store call raises, within the budget of the model
CanRaise == faults < MaxFaults

\* ------------------------------------------------------------------------
\* Operations of BackgroundJobManager and of the environment
\* ------------------------------------------------------------------------
\* start(): self.running = True; asyncio.create_task(self._process_jobs())
StartLoops(ls) == Append(ls, NewTask)

Start ==
  /\ Len(loops) < MaxLoops
  /\ running' = TRUE
  /\ loops' = StartLoops(loops)
  /\ UNCHANGED <<model_loaded, heap, jobs, notes, faults, hist, requests>>

\* stop(): self.running = False
Stop ==
  /\ running' = FALSE
  /\ UNCHANGED <<model_loaded, heap, jobs, notes, loops, faults, hist, requests>>

\* add_job: self.jobs[job_id] = {"id": ..., "status": "queued", "attempts": 0,
\* "max_attempts": 3}.  job_id, job_type and data are the caller's; a new
\* record has no handler outcome yet.
PutJob(job_id, job_type, data) ==
  /\ heap' = Append(heap, NewJob(job_id, job_type, data))
  /\ jobs' = DictSet(jobs, job_id, Len(heap) + 1)
  /\ hist' = Append(hist, <<>>)

add_job(job_id, job_type, data) ==
  /\ PutJob(job_id, job_type, data)
  /\ UNCHANGED <<running, model_loaded, notes, requests, loops, faults>>

\* a note id that the store has given to no row (ids start at 1)
NoNoteId == 0

\* add_job called on its own, for as long as fewer than MaxJobs records have
\* been created or are about to be
AddJob(job_id, job_type, note_id, text) ==
  /\ Len(heap) + Cardinality(requests) < MaxJobs
  /\ add_job(job_id, job_type, [note_id |-> note_id, raw_text |-> text])

\* a caller like create_note, up to its suspension in
\* new_note = await Note.create(...): the store makes the row, or raises and
\* the request ends there
note_create ==
  /\ \/ /\ notes' = Append(notes, NewNote)
        /\ requests' = requests \cup {Len(notes) + 1}
        /\ UNCHANGED faults
     \/ /\ CanRaise
        /\ faults' = faults + 1
        /\ UNCHANGED <<notes, requests>>
  /\ UNCHANGED <<running, model_loaded, heap, jobs, loops, hist>>

NoteCreate ==
  /\ Len(heap) + Cardinality(requests) < MaxJobs
  /\ note_create

\* the caller is resumed with the new note n and calls add_job with the
\* note's id in the payload; add_job has no suspension point
note_add_job(n, job_id, job_type, text) ==
  /\ n \in requests
  /\ requests' = requests \ {n}
  /\ PutJob(job_id, job_type, [note_id |-> n, raw_text |-> text])
  /\ UNCHANGED <<running, model_loaded, notes, loops, faults>>

CreateNoteAddJob(n, job_id, job_type, text) ==
  /\ Len(heap) < MaxJobs
  /\ note_add_job(n, job_id, job_type, text)

\* one more request, once MaxJobs records exist or are about to
NoteCreateAgain ==
  /\ Len(heap) + Cardinality(requests) >= MaxJobs
  /\ Len(heap) + Cardinality(requests) < MaxRecords
  /\ note_create

\* add_job with a job_id that is already a key of self.jobs, for as long as
\* fewer than MaxRecords records have been created
Resubmit(n, job_id, job_type, text) ==
  /\ Len(heap) < MaxRecords
  /\ \E k \in 1 .. Len(jobs) : jobs[k].key = job_id
  /\ note_add_job(n, job_id, job_type, text)

\* LocalAIModel.initialize(): self.model_loaded = True when the model or the
\* fallback model loads, False when both loads raise
Initialize(loadOk, fallbackOk) ==
  /\ model_loaded' = (loadOk \/ fallbackOk)
  /\ UNCHANGED <<running, heap, jobs, notes, requests, loops, faults, hist>>

\* a loop that never looks at the flag
LoopContinuesAlways(flag) == TRUE

\* while self.running: ...
LoopContinues(flag) == flag

\* A task that was created, or that sleeps, runs: the while test, and if it
\* passes the snapshot and the for loop up to its first suspension point.
LoopIterate(l) ==
  /\ loops[l].pc \in {"created", "sleep"}
  /\ IF LoopContinues(running)
     THEN LET snap == queued_jobs(jobs, heap) IN
          Suspend(l, RunFrom(heap, snap, 1), snap, NoNote, None)
     ELSE /\ loops' = [loops EXCEPT ![l].pc = "done"]
          /\ heap' = heap
  /\ UNCHANGED <<running, model_loaded, jobs, notes, faults, hist, requests>>

\* a loop without the outer try/except: the exception ends the task
ScanAbortedExits(l) ==
  loops' = [loops EXCEPT ![l] = [pc |-> "done", snap |-> <<>>, i |-> 0,
                                 note |-> NoNote, summary |-> None]]

\* the outer except: the scan is given up, the task sleeps
ScanAborted(l) ==
  loops' = [loops EXCEPT ![l] = [pc |-> "sleep", snap |-> <<>>, i |-> 0,
                                 note |-> NoNote, summary |-> None]]

\* the handler of the current job of l raised: its outcome is recorded and the
\* loop's except branch runs
HandlerRaises(l) ==
  /\ Suspend(l, HandlerFailed(heap, loops[l].snap, loops[l].i),
             loops[l].snap, NoNote, None)
  /\ hist' = [hist EXCEPT ![CurJob(l)] = Append(@, "fail")]

\* _update_note_status(note_id, "PROCESSING"): note = await Note.get(id=note_id)
\* returns a copy of the row, whose status is then set; or raises, as it
\* does when there is no such row
UpdateNoteGet(l) ==
  /\ loops[l].pc = "h_get1"
  /\ \/ /\ NoteExists(CurNote(l))
        /\ loops' = [loops EXCEPT ![l].pc = "h_save1",
                                  ![l].note = [notes[CurNote(l)] EXCEPT
                                                 !.status = "PROCESSING"]]
        /\ UNCHANGED <<heap, faults, hist>>
     \/ /\ CanRaise
        /\ faults' = faults + 1
        /\ HandlerRaises(l)
     \/ /\ ~NoteExists(CurNote(l))
        /\ HandlerRaises(l)
        /\ UNCHANGED faults
  /\ UNCHANGED <<running, model_loaded, jobs, notes, requests>>

\* _update_note_status(note_id, "PROCESSING"): await note.save() writes the
\* row; then summary = await ai_model.summarize_text(raw_text), which has no
\* suspension point, and the handler suspends in its Note.get
UpdateNoteSave(l) ==
  /\ loops[l].pc = "h_save1"
  /\ \/ /\ notes' = [notes EXCEPT ![CurNote(l)] = loops[l].note]
        /\ \E p \in 1 .. Len(PipelineResults) :
             LET r == SummaryOf[heap[CurJob(l)].data.raw_text][model_loaded][p]
             IN IF r.raised
                THEN HandlerRaises(l)
                ELSE /\ loops' = [loops EXCEPT ![l].pc = "h_get2",
                                               ![l].note = NoNote,
                                               ![l].summary = r.value]
                     /\ UNCHANGED <<heap, hist>>
        /\ UNCHANGED faults
     \/ /\ CanRaise
        /\ faults' = faults + 1
        /\ HandlerRaises(l)
        /\ UNCHANGED notes
  /\ UNCHANGED <<running, model_loaded, jobs, requests>>

\* _process_summarize_job: note = await Note.get(id=note_id);
\* note.summary = summary; note.status = NoteStatus.DONE
HandlerNoteGet(l) ==
  /\ loops[l].pc = "h_get2"
  /\ \/ /\ NoteExists(CurNote(l))
        /\ loops' = [loops EXCEPT ![l].pc = "h_save2",
                                  ![l].note = [status |-> "DONE",
                                               summary |-> loops[l].summary]]
        /\ UNCHANGED <<heap, faults, hist>>
     \/ /\ CanRaise
        /\ faults' = faults + 1
        /\ HandlerRaises(l)
     \/ /\ ~NoteExists(CurNote(l))
        /\ HandlerRaises(l)
        /\ UNCHANGED faults
  /\ UNCHANGED <<running, model_loaded, jobs, notes, requests>>

\* job["status"] = "completed"
MarkCompleted(job) == [job EXCEPT !.status = "completed"]

\* _process_summarize_job: await note.save(); job["status"] = "completed";
\* the handler has returned and the for loop goes on
HandlerNoteSave(l) ==
  /\ loops[l].pc = "h_save2"
  /\ \/ /\ notes' = [notes EXCEPT ![CurNote(l)] = loops[l].note]
        /\ Suspend(l, RunFrom([heap EXCEPT ![CurJob(l)] = MarkCompleted(@)],
                              loops[l].snap, loops[l].i + 1),
                   loops[l].snap, NoNote, None)
        /\ hist' = [hist EXCEPT ![CurJob(l)] = Append(@, "ok")]
        /\ UNCHANGED faults
     \/ /\ CanRaise
        /\ faults' = faults + 1
        /\ HandlerRaises(l)
        /\ UNCHANGED notes
  /\ UNCHANGED <<running, model_loaded, jobs, requests>>

\* _update_note_status(note_id, "FAILED"): note = await Note.get(id=note_id);
\* if it raises, the exception leaves the for loop
FailNoteGet(l) ==
  /\ loops[l].pc = "f_get"
  /\ \/ /\ NoteExists(CurNote(l))
        /\ loops' = [loops EXCEPT ![l].pc = "f_save",
                                  ![l].note = [notes[CurNote(l)] EXCEPT
                                                 !.status = "FAILED"]]
        /\ UNCHANGED faults
     \/ /\ CanRaise
        /\ faults' = faults + 1
        /\ ScanAborted(l)
     \/ /\ ~NoteExists(CurNote(l))
        /\ ScanAborted(l)
        /\ UNCHANGED faults
  /\ UNCHANGED <<running, model_loaded, heap, jobs, notes, hist, requests>>

\* _update_note_status(note_id, "FAILED"): await note.save(); the for loop
\* goes on with the next job
FailNoteSave(l) ==
  /\ loops[l].pc = "f_save"
  /\ \/ /\ notes' = [notes EXCEPT ![CurNote(l)] = loops[l].note]
        /\ Suspend(l, RunFrom(heap, loops[l].snap, loops[l].i + 1),
                   loops[l].snap, NoNote, None)
        /\ UNCHANGED faults
     \/ /\ CanRaise
        /\ faults' = faults + 1
        /\ ScanAborted(l)
        /\ UNCHANGED <<heap, notes>>
  /\ UNCHANGED <<running, model_loaded, jobs, hist, requests>>

Next ==
  \/ Start
  \/ Stop
  \/ NoteCreate
  \/ \E n \in requests, job_id \in JobIds, job_type \in JobTypes,
        text \in TextIds :
       CreateNoteAddJob(n, job_id, job_type, text)
  \/ \E job_id \in JobIds, job_type \in JobTypes :
       AddJob(job_id, job_type, NoNoteId, 1)
  \/ \E l \in 1 .. Len(loops) : LoopIterate(l)
  \/ \E l \in 1 .. Len(loops) : UpdateNoteGet(l)
  \/ \E l \in 1 .. Len(loops) : UpdateNoteSave(l)
  \/ \E l \in 1 .. Len(loops) : HandlerNoteGet(l)
  \/ \E l \in 1 .. Len(loops) : HandlerNoteSave(l)
  \/ \E l \in 1 .. Len(loops) : FailNoteGet(l)
  \/ \E l \in 1 .. Len(loops) : FailNoteSave(l)

Spec == Init /\ [][Next]_vars

\* The event loop runs every task that is ready: a task whose Note Store call
\* has returned or raised, or whose sleep has ended, takes its next step.
TaskStep(l) ==
  /\ l \in 1 .. Len(loops)
  /\ \/ LoopIterate(l)
     \/ UpdateNoteGet(l)
     \/ UpdateNoteSave(l)
     \/ HandlerNoteGet(l)
     \/ HandlerNoteSave(l)
     \/ FailNoteGet(l)
     \/ FailNoteSave(l)

Fairness == \A l \in 1 .. MaxLoops : WF_vars(TaskStep(l))

FairSpec == Spec /\ Fairness

\* The application (main.py): start() is called once, by the startup hook, and
\* stop() by the shutdown hook; notes and jobs come in through create_note.
startup ==
  /\ Len(loops) = 0
  /\ Start

AppNext ==
  \/ startup
  \/ Stop
  \/ NoteCreate
  \/ \E n \in requests, job_id \in JobIds, job_type \in JobTypes,
        text \in TextIds :
       CreateNoteAddJob(n, job_id, job_type, text)
  \/ \E l \in 1 .. Len(loops) : LoopIterate(l)
  \/ \E l \in 1 .. Len(loops) : UpdateNoteGet(l)
  \/ \E l \in 1 .. Len(loops) : UpdateNoteSave(l)
  \/ \E l \in 1 .. Len(loops) : HandlerNoteGet(l)
  \/ \E l \in 1 .. Len(loops) : HandlerNoteSave(l)
  \/ \E l \in 1 .. Len(loops) : FailNoteGet(l)
  \/ \E l \in 1 .. Len(loops) : FailNoteSave(l)

AppSpec == Init /\ [][AppNext]_vars /\ Fairness

\* The application with a caller that submits an id again: one more add_job,
\* with an id that self.jobs already holds.
ResubmitNext ==
  \/ AppNext
  \/ NoteCreateAgain
  \/ \E n \in requests, job_id \in JobIds, job_type \in JobTypes,
        text \in TextIds :
       Resubmit(n, job_id, job_type, text)

ResubmitSpec == Init /\ [][ResubmitNext]_vars

TypeOK ==
  /\ running \in BOOLEAN
  /\ model_loaded \in BOOLEAN
  /\ Len(heap) <= MaxRecords
  /\ \A o \in 1 .. Len(heap) :
       /\ heap[o].status \in JobStatus
       /\ heap[o].attempts \in 0 .. MaxAttempts
       /\ heap[o].data.note_id \in 0 .. Len(notes)
  /\ \A n \in 1 .. Len(notes) : notes[n].status \in NoteStatus
  /\ requests \subseteq 1 .. Len(notes)
  /\ \A l \in 1 .. Len(loops) :
       /\ loops[l].pc \in LoopPc
       /\ loops[l].pc \in HandlerPc \cup {"f_get", "f_save"}
            => loops[l].i \in 1 .. Len(loops[l].snap)
  /\ faults \in 0 .. MaxFaults

\* ------------------------------------------------------------------------
\* Vocabulary of the properties
\* ------------------------------------------------------------------------
Records == 1 .. Len(heap)
Tasks == 1 .. Len(loops)
Terminal == {"completed", "failed"}

\* the note a job record's payload names
NoteOf(o) == notes[heap[o].data.note_id]
\* the payload of record o names a row of the Note Store
HasNote(o) == NoteExists(heap[o].data.note_id)

\* the step of task l is a Note Store call of _update_note_status(FAILED)
\* that raises
PropagationRaises(l) ==
  /\ loops'[l] # loops[l]
  /\ \/ loops[l].pc = "f_get" /\ loops'[l].pc # "f_save"
     \/ loops[l].pc = "f_save" /\ faults' = faults + 1

\* a scheduling loop that has not ended
Alive(l) == loops[l].pc # "done"

\* task l is inside a scan: between its snapshot and the sleep that ends it
Scanning(l) == loops[l].pc \in HandlerPc \cup {"f_get", "f_save"}

\* a handler invocation of task l is in flight, for the record CurJob(l)
InHandler(l) == loops[l].pc \in HandlerPc

\* a scan that has reached record o (dispatched it or marked it failed) is
\* still under way
ScanUnderWay(o) ==
  \E l \in Tasks :
    Scanning(l) /\ \E k \in 1 .. loops[l].i : loops[l].snap[k] = o

\* the job id has a record in self.jobs
Present(job_id) == \E k \in 1 .. Len(jobs) : jobs[k].key = job_id
RefOf(job_id) == jobs[CHOOSE k \in 1 .. Len(jobs) : jobs[k].key = job_id].ref

NonEmptyStr(v) == v.isStr /\ Len(v.chars) > 0

\* ------------------------------------------------------------------------
\* C1: in every reachable state every job's attempts counter is at most its
\* max_attempts (3).
\* ------------------------------------------------------------------------
C1_AttemptsBounded ==
  \A o \in Records :
    /\ heap[o].max_attempts = MaxAttempts
    /\ heap[o].attempts <= heap[o].max_attempts

\* a job has been dispatched max_attempts times and a later scan has it in its
\* snapshot still: the pre-dispatch test is what keeps the counter at 3
C1_Witness ==
  \E o \in Records :
    /\ heap[o].attempts = heap[o].max_attempts
    /\ \E l \in Tasks :
         /\ Scanning(l)
         /\ \E k \in (loops[l].i + 1) .. Len(loops[l].snap) : loops[l].snap[k] = o

\* ------------------------------------------------------------------------
\* C2: every job that reaches status failed has attempts = max_attempts and,
\* once the scan that marked it failed has ended, its note's status is FAILED,
\* whatever the Note Store calls made while propagating the failure do.
\* ------------------------------------------------------------------------
C2_FailedRecordedOnNote ==
  \A o \in Records :
    heap[o].status = "failed" =>
      /\ heap[o].attempts = heap[o].max_attempts
      /\ (HasNote(o) /\ ~ScanUnderWay(o)) => NoteOf(o).status = "FAILED"

\* ------------------------------------------------------------------------
\* C3: in every reachable state where a job's status is completed, its note's
\* status is DONE and the note's summary is a non-empty string.
\* ------------------------------------------------------------------------
C3_CompletedNoteDone ==
  \A o \in Records :
    heap[o].status = "completed" =>
      /\ NoteOf(o).status = "DONE"
      /\ NonEmptyStr(NoteOf(o).summary)

\* ------------------------------------------------------------------------
\* C4: completed and failed are terminal: once a job's status is completed or
\* failed, no later step changes that job's status or its attempts counter.
\* ------------------------------------------------------------------------
C4_TerminalIsFinal ==
  [][\A o \in Records :
       heap[o].status \in Terminal =>
         /\ heap'[o].status = heap[o].status
         /\ heap'[o].attempts = heap[o].attempts]_vars

\* ------------------------------------------------------------------------
\* C5: at no time are two handler invocations in flight for the same job.
\* ------------------------------------------------------------------------
C5_OneInvocationPerJob ==
  \A l1, l2 \in Tasks :
    (l1 # l2 /\ InHandler(l1) /\ InHandler(l2)) => CurJob(l1) # CurJob(l2)

\* ------------------------------------------------------------------------
\* C6: start() is idempotent: after any sequence of start() and stop() calls
\* at most one scheduling loop is alive.
\* ------------------------------------------------------------------------
C6_AtMostOneLoop ==
  Cardinality({l \in Tasks : Alive(l)}) <= 1

\* ------------------------------------------------------------------------
\* C7: while the scheduling loop keeps running (no stop) and every handler and
\* Note Store call eventually returns or raises, every job submitted with
\* add_job, whatever its type tag, eventually is completed or failed.
\* ------------------------------------------------------------------------
C7_EveryJobEnds ==
  \A job_id \in JobIds :
    Present(job_id) ~>
      (~running \/ (Present(job_id) /\ get_job_status(job_id).status \in Terminal))

\* ------------------------------------------------------------------------
\* C8: after stop() (and until a later start()) the loop takes no new snapshot
\* of queued jobs; the scan in flight runs to its end; a handler in flight is
\* not cancelled and its outcome (completed, queued for retry, or failed) is
\* recorded on the job; and then the loop exits.
\* ------------------------------------------------------------------------
C8_StoppedStep ==
  ~running =>
    \* no new snapshot: a task at its while test can only end, and with no
    \* scan under way no job record changes
    /\ \A l \in Tasks :
         loops[l].pc \in {"created", "sleep"} =>
           loops'[l].pc \in {loops[l].pc, "done"}
    /\ (\A l \in Tasks : ~Scanning(l)) => \A o \in Records : heap'[o] = heap[o]
    /\ \A l \in Tasks :
         Scanning(l) /\ loops'[l] # loops[l] =>
           \* the scan goes on: the loop does not exit from inside it
           /\ loops'[l].pc # "done"
           \* the handler goes on, or its outcome is on the job
           /\ InHandler(l) =>
                \/ /\ loops'[l].pc \in HandlerPc
                   /\ loops'[l].i = loops[l].i
                   /\ heap'[CurJob(l)] = heap[CurJob(l)]
                \/ heap'[CurJob(l)].status \in {"completed", "queued", "failed"}
           \* the scan runs to its end: every job of the snapshot that the
           \* loop passes in this step, up to the last one when the step ends
           \* the scan, is dispatched
           /\ \A k \in (loops[l].i + 1) ..
                      (IF loops'[l].pc = "sleep" THEN Len(loops[l].snap)
                       ELSE loops'[l].i - 1) :
                heap'[loops[l].snap[k]].attempts
                  = heap[loops[l].snap[k]].attempts + 1

C8_StopDrains ==
  /\ [][C8_StoppedStep]_vars
  /\ (~running ~> (running \/ \A l \in Tasks : loops[l].pc = "done"))

\* ------------------------------------------------------------------------
\* C9: for every job id, the attempts counter observed through get_job_status
\* never decreases: no operation (add_job, a scan step, start, stop) lowers it.
\* ------------------------------------------------------------------------
C9_AttemptsNeverLowered ==
  [][\A job_id \in JobIds :
       Present(job_id) =>
         get_job_status(job_id)'.attempts >= get_job_status(job_id).attempts]_vars

\* C9 as amended: the attempts counter of a job record never decreases, and
\* the counter observed through get_job_status for a job id decreases only in
\* an add_job with that id, which puts a new record with attempts 0 in place
\* of the old one.
C9_AttemptsLoweredOnlyByResubmit ==
  [][/\ \A o \in Records : heap'[o].attempts >= heap[o].attempts
     /\ \A job_id \in JobIds :
          Present(job_id) =>
            \/ /\ RefOf(job_id)' = RefOf(job_id)
               /\ get_job_status(job_id)'.attempts
                    >= get_job_status(job_id).attempts
            \/ /\ RefOf(job_id)' = Len(heap) + 1
               /\ Len(heap') = Len(heap) + 1
               /\ get_job_status(job_id)'.attempts = 0]_vars

\* a job id was submitted again after its first record had been retried: the
\* old record has counted two attempts, the record in the store none
C9_Witness ==
  \E o1, o2 \in Records :
    /\ o1 < o2
    /\ heap[o1].id = heap[o2].id
    /\ heap[o1].attempts >= 2
    /\ Present(heap[o2].id) /\ RefOf(heap[o2].id) = o2
    /\ heap[o2].attempts = 0

\* ------------------------------------------------------------------------
\* C10 (scenario A): a job whose handler fails on every invocation is
\* dispatched in exactly three scans (attempts 1, 2, 3, queued again after the
\* first two); at the end of the third scan its status is failed and its
\* note's status is FAILED; it is not dispatched in any later scan.
\* ------------------------------------------------------------------------
AlwaysFailed(o) ==
  /\ HasHandler(heap[o])
  /\ \A k \in 1 .. Len(hist[o]) : hist[o][k] = "fail"

C10_ScenarioA ==
  \A o \in Records :
    AlwaysFailed(o) =>
      /\ Len(hist[o]) <= MaxAttempts
      \* a failed job is in no handler: it is not dispatched again
      /\ heap[o].status = "failed" =>
           \A l \in Tasks : ~(InHandler(l) /\ CurJob(l) = o)
      /\ ~ScanUnderWay(o) =>
           /\ heap[o].attempts = Len(hist[o])
           /\ Len(hist[o]) < MaxAttempts => heap[o].status = "queued"
           /\ Len(hist[o]) = MaxAttempts =>
                /\ heap[o].status = "failed"
                /\ NoteOf(o).status = "FAILED"

\* ------------------------------------------------------------------------
\* C11 (scenario B): a job whose handler fails on its first invocation and
\* succeeds on its second is queued with attempts 1 after the first scan and
\* completed with attempts exactly 2 after the second scan.
\* ------------------------------------------------------------------------
C11_ScenarioB ==
  \A o \in Records :
    ~ScanUnderWay(o) =>
      /\ hist[o] = <<"fail">> =>
           heap[o].status = "queued" /\ heap[o].attempts = 1
      /\ hist[o] = <<"fail", "ok">> =>
           heap[o].status = "completed" /\ heap[o].attempts = 2

\* the second scan has ended: the job failed once, then succeeded
C11_Witness ==
  \E o \in Records :
    /\ hist[o] = <<"fail", "ok">>
    /\ ~ScanUnderWay(o)
    /\ heap[o].status = "completed"
    /\ NoteOf(o).status = "DONE"

\* ------------------------------------------------------------------------
\* C12 (scenario D): a job submitted with add_job after stop() and before any
\* later start() is recorded queued with attempts 0 and is never dispatched:
\* its status and attempts stay as they are for as long as start() is not
\* called again, also when stop() was called while a scan was in flight.
\* Stated step by step: while running is false, add_job records the job
\* queued with attempts 0 in no scan's snapshot, and a record that no scan
\* still has ahead of it is changed by no step and enters no snapshot.
\* ------------------------------------------------------------------------
\* no scan in flight has record o at its current position or ahead of it
OutOfScans(o) ==
  \A l \in Tasks :
    \A k \in 1 .. Len(loops[l].snap) :
      loops[l].snap[k] = o => (Scanning(l) /\ k < loops[l].i)

C12_StoppedStep ==
  ~running =>
    \A o \in 1 .. Len(heap') :
      /\ o > Len(heap) =>
           /\ heap'[o].status = "queued"
           /\ heap'[o].attempts = 0
           /\ OutOfScans(o)'
      /\ (o <= Len(heap) /\ OutOfScans(o)) =>
           /\ heap'[o] = heap[o]
           /\ OutOfScans(o)'

C12_NotDispatchedWhileStopped == [][C12_StoppedStep]_vars

\* stop() came while a scan was in flight, a job was submitted after it, and
\* the scan has gone past its last record without touching the new job
C12_Witness ==
  /\ ~running
  /\ \E l \in Tasks, o \in Records :
       /\ Scanning(l)
       /\ Len(loops[l].snap) > 0
       /\ loops[l].i = Len(loops[l].snap)
       /\ \A k \in 1 .. Len(loops[l].snap) : loops[l].snap[k] # o
       /\ OutOfScans(o)
       /\ RefOf(heap[o].id) = o
       /\ heap[o].status = "queued"
       /\ heap[o].attempts = 0

\* ------------------------------------------------------------------------
\* C13 (scenario E): two jobs are dispatched for the first time by the same
\* scan, one handler succeeds and the other fails transiently.
\* ------------------------------------------------------------------------
\* the step of task l ends a scan that dispatched both o1 and o2, neither of
\* them dispatched before; o1's handler returned and o2's handler raised with
\* attempts left
ScenarioE(l, o1, o2) ==
  /\ Scanning(l)
  /\ loops'[l].pc = "sleep"
  /\ o1 # o2
  /\ \E k1, k2 \in 1 .. loops[l].i :
       loops[l].snap[k1] = o1 /\ loops[l].snap[k2] = o2
  /\ hist'[o1] = <<"ok">>
  /\ hist'[o2] = <<"fail">>
  /\ heap'[o2].status = "queued"

\* C13 as stated: in that scan only the failing job's attempts counter is
\* incremented (the successful job's counter stays 0), and the successful job
\* is completed when the scan ends.
C13_OnlyFailingCounted ==
  [][\A l \in Tasks : \A o1, o2 \in Records :
       ScenarioE(l, o1, o2) =>
         /\ heap'[o1].status = "completed"
         /\ heap'[o1].attempts = 0
         /\ heap'[o2].attempts = 1]_vars

\* C13 amended: in that scan the attempts counter of both jobs is incremented
\* by one, the dispatch counting whether the handler then succeeds or fails;
\* the successful job is completed and the failing job is queued again when
\* the scan ends.
C13_BothCounted ==
  [][\A l \in Tasks : \A o1, o2 \in Records :
       ScenarioE(l, o1, o2) =>
         /\ heap'[o1].status = "completed"
         /\ heap'[o1].attempts = 1
         /\ heap'[o2].status = "queued"
         /\ heap'[o2].attempts = 1]_vars

\* the scan has completed its first job and is inside the handler of its
\* second: both counters have been incremented by this scan
C13_Witness ==
  \E l \in Tasks :
    /\ InHandler(l)
    /\ Len(loops[l].snap) = 2
    /\ loops[l].i = 2
    /\ LET o1 == loops[l].snap[1]
           o2 == loops[l].snap[2]
       IN  /\ o1 # o2
           /\ hist[o1] = <<"ok">>
           /\ heap[o1].status = "completed"
           /\ heap[o1].attempts = 1
           /\ hist[o2] = <<>>
           /\ heap[o2].status = "processing"
           /\ heap[o2].attempts = 1
           /\ heap[o2].data.raw_text = 1

\* ------------------------------------------------------------------------
\* C14 (scenario C): get_job_status on a job id that was never submitted
\* returns the sentinel {status: not_found} and raises no error, in every
\* state of the queue (running or stopped, during a scan or between scans).
\* ------------------------------------------------------------------------
\* the ids a caller may ask for: the submitted ones and one that never is
QueryIds == JobIds \cup {"j0"}

\* no add_job call was ever made with this id (heap keeps every record made)
NeverSubmitted(job_id) == \A o \in Records : heap[o].id # job_id

C14_NotFoundSentinel ==
  \A job_id \in QueryIds :
    NeverSubmitted(job_id) => get_job_status(job_id) = NotFound

\* the query for an id never submitted is answered while a scan is inside the
\* handler of another id's job
C14_Witness ==
  \E job_id \in JobIds :
    /\ NeverSubmitted(job_id)
    /\ get_job_status(job_id) = NotFound
    /\ running
    /\ \E l \in Tasks :
         InHandler(l) /\ get_job_status(heap[CurJob(l)].id).status = "processing"

\* ------------------------------------------------------------------------
\* C16: add_job with a job_id already present raises no error and replaces
\* the existing record by a fresh one with status queued and attempts 0,
\* whatever the status of the old record (queued, processing, completed or
\* failed); every other job's record is left unchanged.
\* ------------------------------------------------------------------------
\* the step is an add_job call whose job_id is a key of self.jobs
Resubmitted(job_id) ==
  /\ Len(heap') = Len(heap) + 1
  /\ heap'[Len(heap')].id = job_id
  /\ Present(job_id)

C16_ResubmitStep ==
  \A job_id \in JobIds :
    Resubmitted(job_id) =>
    /\ RefOf(job_id)' = Len(heap')
    /\ get_job_status(job_id)'.status = "queued"
    /\ get_job_status(job_id)'.attempts = 0
    /\ Len(jobs') = Len(jobs)
    /\ \A other \in JobIds \ {job_id} :
         /\ Present(other)' = Present(other)
         /\ get_job_status(other)' = get_job_status(other)
    /\ \A o \in Records : heap'[o] = heap[o]
    /\ UNCHANGED <<running, loops>>

C16_ResubmitReplaces == [][C16_ResubmitStep]_vars

\* an id was submitted again while its old record was inside a handler
\* (processing) and another id's job was completed: the id now shows a fresh
\* record, the other id the record it had
C16_Witness ==
  \E old, new, oth \in Records :
    /\ old < new
    /\ heap[old].id = heap[new].id
    /\ heap[oth].id # heap[new].id
    /\ RefOf(heap[new].id) = new
    /\ RefOf(heap[oth].id) = oth
    /\ get_job_status(heap[new].id).status = "queued"
    /\ get_job_status(heap[new].id).attempts = 0
    /\ heap[old].status = "processing"
    /\ heap[old].attempts = 1
    /\ \E l \in Tasks : InHandler(l) /\ CurJob(l) = old
    /\ get_job_status(heap[oth].id).status = "completed"

\* ------------------------------------------------------------------------
\* C17: an error raised in the scan body outside a handler invocation (while
\* propagating a failure to the note) does not end the scheduling loop: it is
\* caught, the loop sleeps and runs the next scan, and jobs of the aborted
\* scan that are still queued are dispatched by a later scan; only stop()
\* makes the loop exit.
\* ------------------------------------------------------------------------
C17_LoopStep ==
  \A l \in Tasks :
    /\ PropagationRaises(l) =>
         /\ loops'[l].pc = "sleep"
         /\ \A o \in Records : heap'[o] = heap[o]
    /\ (loops[l].pc # "done" /\ loops'[l].pc = "done") =>
         /\ ~running
         /\ loops[l].pc \in {"created", "sleep"}

\* record o is the record of its id in self.jobs and is queued
Waiting(o) ==
  /\ o \in Records
  /\ heap[o].status = "queued"
  /\ Present(heap[o].id)
  /\ RefOf(heap[o].id) = o

C17_LoopSurvivesAbort ==
  /\ [][C17_LoopStep]_vars
  /\ \A o \in 1 .. MaxJobs :
       (running /\ Waiting(o)) ~> (~running \/ ~Waiting(o))

\* the propagation of a job's failure raised (the job is failed, its note is
\* not, and no scan is on it any more), and the loop is alive in a later scan,
\* inside the handler of another job
C17_Witness ==
  \E l \in Tasks, o, o2 \in Records :
    /\ faults = 1
    /\ heap[o].status = "failed"
    /\ HasNote(o)
    /\ NoteOf(o).status # "FAILED"
    /\ ~ScanUnderWay(o)
    /\ o2 # o
    /\ running
    /\ InHandler(l)
    /\ CurJob(l) = o2

\* ------------------------------------------------------------------------
\* C18: the change of a job's status from queued to processing and the
\* increment of its attempts are one atomic step with respect to
\* get_job_status: no state a status query can observe has status processing
\* (or completed or failed) with attempts 0, and attempts 0 implies status
\* queued.
\* ------------------------------------------------------------------------
C18_DispatchAtomic ==
  /\ \A job_id \in JobIds :
       Present(job_id) =>
         LET job == get_job_status(job_id) IN
         /\ job.status \in {"processing", "completed", "failed"}
              => job.attempts >= 1
         /\ job.attempts = 0 => job.status = "queued"
  /\ \A o \in Records : heap[o].attempts = 0 => heap[o].status = "queued"

\* a query made while the scan is suspended in a handler sees the dispatched
\* job processing with attempts 1, and the next job of the snapshot queued
\* with attempts 0
C18_Witness ==
  \E l \in Tasks :
    /\ InHandler(l)
    /\ loops[l].i < Len(loops[l].snap)
    /\ LET cur == get_job_status(heap[CurJob(l)].id)
           nxt == get_job_status(heap[loops[l].snap[loops[l].i + 1]].id)
       IN  /\ cur.status = "processing"
           /\ cur.attempts = 1
           /\ nxt.status = "queued"
           /\ nxt.attempts = 0

\* ------------------------------------------------------------------------
\* C19: a note's status only moves forward along QUEUED -> PROCESSING ->
\* DONE | FAILED under the job core's writes: once a note's status is DONE or
\* FAILED no later step of the core changes it, and retries only rewrite
\* PROCESSING over PROCESSING.
\* ------------------------------------------------------------------------
NoteRank(status) ==
  CASE status = "QUEUED" -> 0
    [] status = "PROCESSING" -> 1
    [] status \in {"DONE", "FAILED"} -> 2

C19_NoteStep ==
  \A n \in 1 .. Len(notes) :
    /\ NoteRank(notes'[n].status) >= NoteRank(notes[n].status)
    /\ notes[n].status \in {"DONE", "FAILED"}
         => notes'[n].status = notes[n].status

C19_NoteMovesForward == [][C19_NoteStep]_vars

\* ------------------------------------------------------------------------
\* C20: with one scheduling loop and jobs created only by add_job, every job
\* whose status is queued has attempts strictly less than max_attempts, so
\* the loop's pre-dispatch branch 'attempts >= max_attempts: mark failed' is
\* never taken and a job is only ever marked failed by the handler-failure
\* path.
\* ------------------------------------------------------------------------
C20_QueuedHasAttemptsLeft ==
  \A o \in Records :
    heap[o].status = "queued" => heap[o].attempts < heap[o].max_attempts

\* a record becomes failed only in the step in which its handler raises,
\* coming from processing
C20_FailedStep ==
  \A o \in Records :
    (heap[o].status # "failed" /\ heap'[o].status = "failed") =>
      /\ heap[o].status = "processing"
      /\ hist'[o] = Append(hist[o], "fail")
      /\ heap'[o].attempts = heap[o].max_attempts

C20_PreDispatchBranchDead ==
  /\ []C20_QueuedHasAttemptsLeft
  /\ [][C20_FailedStep]_vars

\* a job was marked failed by the except branch of its third dispatch
C20_Witness ==
  \E o \in Records :
    /\ heap[o].status = "failed"
    /\ heap[o].attempts = heap[o].max_attempts
    /\ hist[o] = <<"fail", "fail", "fail">>
    /\ Len(loops) = 1

====
